---------------------------- MODULE Spec2Model ----------------------------
(***************************************************************************)
(* Model of the multi-agent report generator: the nine node functions of   *)
(* multi_agent_hierarchy.py, the router, the compiled graph that threads   *)
(* AgentState through them, and the Streamlit handler of app.py that       *)
(* invokes the graph and renders the result.                               *)
(*                                                                         *)
(* Texts are TLA+ strings.  The emoji that prefix the log messages in the  *)
(* source are left out of the string literals (the module is ASCII); every *)
(* other character of the literals is kept.                                *)
(***************************************************************************)
EXTENDS Naturals, Sequences, FiniteSets, TLC

VARIABLES
    state,      \* the graph's AgentState: a mapping from the keys that are set
    node,       \* the node the graph runs next
    status,     \* "idle" | "running" | "done" | "error": where graph.invoke is
    error,      \* the exception graph.invoke raised ("none" when it has not)
    result,     \* what graph.invoke returned to its caller (NoResult: nothing)
    ui,         \* what the Streamlit page shows
    trace,      \* the nodes invoked so far, in order
    llm_calls   \* the llm.invoke calls made so far, in order

vars == <<state, node, status, error, result, ui, trace, llm_calls>>

-----------------------------------------------------------------------------
(* Bounds of the model *)

\* backend responses are the strings of at most MaxLen characters
MaxLen == 1

\* the characters a backend response is made of
Alphabet == {"a", "b"}

RECURSIVE Strs(_)
Strs(n) == IF n = 0 THEN {""}
           ELSE LET shorter == Strs(n - 1)
                IN  shorter \cup {s \o c : s \in shorter, c \in Alphabet}

Texts == Strs(MaxLen)

\* llm.invoke either returns a result with a content, or raises (transport or
\* quota error)
Returned(t) == [raised |-> FALSE, content |-> t]

Failure == [raised |-> TRUE, content |-> ""]

Outcomes == {Returned(t) : t \in Texts} \cup {Failure}

\* what the user may have typed in the text area when the button is pressed
Inputs == {"", " ", "AI", " AI "}

\* the minute datetime.now() falls in when compile_report runs
Timestamps == {"2026-01-01 09:00", "2026-01-01 09:01"}

-----------------------------------------------------------------------------
(* Program constants *)

\* langgraph.graph.END, the name the router's Literal lists last
END == "__end__"

\* result.content[:400] in the four log previews
PREVIEW_CHARS == 400

\* research[:2000] in the two writers' prompts
EXCERPT_CHARS == 2000

NoResult == [none |-> TRUE]

\* before graph.invoke is called there is no state: no key is set
NoState == [k \in {} |-> ""]

Nodes == <<"ceo_agent", "research_team_leader", "data_researcher",
           "market_researcher", "merge_research", "writing_team_leader",
           "technical_writer", "summary_writer", "compile_report">>

NodeSet == {Nodes[i] : i \in 1..Len(Nodes)}

\* the mapping given to add_conditional_edges, the same for every node
PathMap == [k \in NodeSet \cup {END} |-> k]

EntryPoint == "ceo_agent"

-----------------------------------------------------------------------------
(* Python helpers *)

Min(a, b) == IF a < b THEN a ELSE b

\* s[:n]
Take(s, n) == SubSeq(s, 1, Min(n, Len(s)))

\* state.get(k, d)
Get(s, k, d) == IF k \in DOMAIN s THEN s[k] ELSE d

\* bool(x) of a string
Truthy(x) == x # ""

IsSpace(c) == c \in {" ", "\t", "\n", "\r"}

RECURSIVE LStrip(_)
LStrip(s) == IF Len(s) > 0 /\ IsSpace(SubSeq(s, 1, 1))
             THEN LStrip(SubSeq(s, 2, Len(s))) ELSE s

RECURSIVE RStrip(_)
RStrip(s) == IF Len(s) > 0 /\ IsSpace(SubSeq(s, Len(s), Len(s)))
             THEN RStrip(SubSeq(s, 1, Len(s) - 1)) ELSE s

\* str.strip()
Strip(s) == RStrip(LStrip(s))

AIMessage(content) == [role |-> "ai", content |-> content]

HumanMessage(content) == [role |-> "human", content |-> content]

-----------------------------------------------------------------------------
(* AgentState and the way the graph applies a node's update to it *)

\* the update applied with messages overwritten like every other key
Merge_replaces_messages(s, u) ==
    [k \in DOMAIN s \cup DOMAIN u |-> IF k \in DOMAIN u THEN u[k] ELSE s[k]]

\* every channel but messages keeps the last value written; messages
\* (MessagesState) appends
Merge(s, u) ==
    [k \in DOMAIN s \cup DOMAIN u |->
        IF k = "messages"
        THEN Get(s, "messages", <<>>) \o Get(u, "messages", <<>>)
        ELSE IF k \in DOMAIN u THEN u[k] ELSE s[k]]

-----------------------------------------------------------------------------
(* The nodes: each maps a state (and what llm.invoke returned) to its update *)

\* ceo_agent writing langgraph's END in its third branch
ceo_agent_writes_END(s) ==
    LET has_research == Truthy(Get(s, "merged_research", ""))
        has_tech     == Truthy(Get(s, "technical_text", ""))
        has_summary  == Truthy(Get(s, "summary_text", ""))
        next_agent   == IF ~has_research THEN "research_team_leader"
                        ELSE IF ~(has_tech /\ has_summary) THEN "writing_team_leader"
                        ELSE END
        ceo_msg      == IF ~has_research
                        THEN "CEO: Let's start research. Handing off to Research Team Leader."
                        ELSE IF ~(has_tech /\ has_summary)
                        THEN "CEO: Research complete. Handing off to Writing Team Leader."
                        ELSE "CEO: All tasks complete. Great job team!"
    IN  [messages |-> <<AIMessage(ceo_msg)>>, next_agent |-> next_agent]

\* ceo_agent with its first test inverted: research is never started
ceo_agent_skips_research(s) ==
    LET has_research == Truthy(Get(s, "merged_research", ""))
        has_tech     == Truthy(Get(s, "technical_text", ""))
        has_summary  == Truthy(Get(s, "summary_text", ""))
        next_agent   == IF has_research THEN "research_team_leader"
                        ELSE IF ~(has_tech /\ has_summary) THEN "writing_team_leader"
                        ELSE "end"
        ceo_msg      == IF has_research
                        THEN "CEO: Let's start research. Handing off to Research Team Leader."
                        ELSE IF ~(has_tech /\ has_summary)
                        THEN "CEO: Research complete. Handing off to Writing Team Leader."
                        ELSE "CEO: All tasks complete. Great job team!"
    IN  [messages |-> <<AIMessage(ceo_msg)>>, next_agent |-> next_agent]

ceo_agent(s) ==
    LET has_research == Truthy(Get(s, "merged_research", ""))
        has_tech     == Truthy(Get(s, "technical_text", ""))
        has_summary  == Truthy(Get(s, "summary_text", ""))
        next_agent   == IF ~has_research THEN "research_team_leader"
                        ELSE IF ~(has_tech /\ has_summary) THEN "writing_team_leader"
                        ELSE "end"
        ceo_msg      == IF ~has_research
                        THEN "CEO: Let's start research. Handing off to Research Team Leader."
                        ELSE IF ~(has_tech /\ has_summary)
                        THEN "CEO: Research complete. Handing off to Writing Team Leader."
                        ELSE "CEO: All tasks complete. Great job team!"
    IN  [messages |-> <<AIMessage(ceo_msg)>>, next_agent |-> next_agent]

\* research_team_leader with the next node's name misspelt
research_team_leader_misnamed(s) ==
    LET task == Get(s, "current_task", "No Task Provided")
        leader_msg == "Research Team Leader:\nSplitting research task:\n"
                      \o "- Data Researcher -> factual data\n"
                      \o "- Market Researcher -> market trends\nTask: " \o task
    IN  [messages |-> <<AIMessage(leader_msg)>>, next_agent |-> "data_research"]

research_team_leader(s) ==
    LET task == Get(s, "current_task", "No Task Provided")
        leader_msg == "Research Team Leader:\nSplitting research task:\n"
                      \o "- Data Researcher -> factual data\n"
                      \o "- Market Researcher -> market trends\nTask: " \o task
    IN  [messages |-> <<AIMessage(leader_msg)>>, next_agent |-> "data_researcher"]

data_researcher_prompt(s) ==
    "As a Data Researcher, find factual data, statistics, and scientific info about:\n\n"
    \o Get(s, "current_task", "") \o "\n\nKeep it concise but thorough."

\* data_researcher handing over to merge_research, past market_researcher
data_researcher_skips_market(s, content) ==
    [messages |-> <<AIMessage("Data Researcher:\n" \o Take(content, PREVIEW_CHARS) \o "...")>>,
     research_data |-> content,
     next_agent |-> "merge_research"]

data_researcher(s, content) ==
    [messages |-> <<AIMessage("Data Researcher:\n" \o Take(content, PREVIEW_CHARS) \o "...")>>,
     research_data |-> content,
     next_agent |-> "market_researcher"]

market_researcher_prompt(s) ==
    "As a Market Researcher, find trends, business insights, and market data about:\n\n"
    \o Get(s, "current_task", "") \o "\n\nKeep it concise but thorough."

\* market_researcher storing its text under data_researcher's key
market_researcher_wrong_key(s, content) ==
    [messages |-> <<AIMessage("Market Researcher:\n" \o Take(content, PREVIEW_CHARS) \o "...")>>,
     research_data |-> content,
     next_agent |-> "merge_research"]

market_researcher(s, content) ==
    [messages |-> <<AIMessage("Market Researcher:\n" \o Take(content, PREVIEW_CHARS) \o "...")>>,
     market_data |-> content,
     next_agent |-> "merge_research"]

\* merge_research handing over to the writers itself, past ceo_agent
merge_research_skips_ceo(s) ==
    [messages |-> <<AIMessage("Research Team Leader: Merged research data.")>>,
     merged_research |-> "**DATA RESEARCH:**\n" \o Get(s, "research_data", "")
                         \o "\n\n**MARKET RESEARCH:**\n" \o Get(s, "market_data", ""),
     next_agent |-> "writing_team_leader"]

merge_research(s) ==
    LET merged == "**DATA RESEARCH:**\n" \o Get(s, "research_data", "")
                  \o "\n\n**MARKET RESEARCH:**\n" \o Get(s, "market_data", "")
    IN  [messages |-> <<AIMessage("Research Team Leader: Merged research data.")>>,
         merged_research |-> merged,
         next_agent |-> "ceo_agent"]

\* writing_team_leader logging nothing
writing_team_leader_silent(s) ==
    [messages |-> <<>>, next_agent |-> "technical_writer"]

writing_team_leader(s) ==
    LET msg == "Writing Team Leader: Assigning tasks to Technical Writer and Summary Writer."
    IN  [messages |-> <<AIMessage(msg)>>, next_agent |-> "technical_writer"]

technical_writer_prompt(s) ==
    "As a Technical Writer, write a technical explanation about:\n\nTask: "
    \o Get(s, "current_task", "") \o "\n\nBased on research:\n"
    \o Take(Get(s, "merged_research", ""), EXCERPT_CHARS) \o "\n"

\* technical_writer handing over to compile_report, past summary_writer
technical_writer_skips_summary(s, content) ==
    [messages |-> <<AIMessage("Technical Writer:\n" \o Take(content, PREVIEW_CHARS) \o "...")>>,
     technical_text |-> content,
     next_agent |-> "compile_report"]

technical_writer(s, content) ==
    [messages |-> <<AIMessage("Technical Writer:\n" \o Take(content, PREVIEW_CHARS) \o "...")>>,
     technical_text |-> content,
     next_agent |-> "summary_writer"]

summary_writer_prompt(s) ==
    "As a Summary Writer, create an executive summary for:\n\nTask: "
    \o Get(s, "current_task", "") \o "\n\nBased on:\n"
    \o Take(Get(s, "merged_research", ""), EXCERPT_CHARS) \o "\n"

\* summary_writer marking the task complete itself
summary_writer_completes(s, content) ==
    [messages |-> <<AIMessage("Summary Writer:\n" \o Take(content, PREVIEW_CHARS) \o "...")>>,
     summary_text |-> content,
     task_complete |-> TRUE,
     next_agent |-> "compile_report"]

summary_writer(s, content) ==
    [messages |-> <<AIMessage("Summary Writer:\n" \o Take(content, PREVIEW_CHARS) \o "...")>>,
     summary_text |-> content,
     next_agent |-> "compile_report"]

Rule == "========================================================="

\* the report template, filled
Report(now, task, technical, summary) ==
    "\nFINAL REPORT\n" \o Rule \o "\nGenerated: " \o now
    \o "\nTopic: " \o task \o "\n" \o Rule
    \o "\n\n**Technical Details:**\n" \o technical
    \o "\n\n**Executive Summary:**\n" \o summary
    \o "\n\n" \o Rule \o "\nCompiled by Multi-Agent AI System powered by Groq\n"

\* compile_report leaving task_complete unset
compile_report_forgets_complete(s, now) ==
    LET report == Report(now, Get(s, "current_task", ""),
                         Get(s, "technical_text", ""), Get(s, "summary_text", ""))
    IN  [messages |-> <<AIMessage("Writing Team Leader: Final report compiled.")>>,
         final_report |-> report,
         next_agent |-> "ceo_agent"]

\* compile_report with the two texts under each other's heading
compile_report_swapped(s, now) ==
    LET report == Report(now, Get(s, "current_task", ""),
                         Get(s, "summary_text", ""), Get(s, "technical_text", ""))
    IN  [messages |-> <<AIMessage("Writing Team Leader: Final report compiled.")>>,
         final_report |-> report,
         task_complete |-> TRUE,
         next_agent |-> "ceo_agent"]

compile_report(s, now) ==
    LET report == Report(now, Get(s, "current_task", ""),
                         Get(s, "technical_text", ""), Get(s, "summary_text", ""))
    IN  [messages |-> <<AIMessage("Writing Team Leader: Final report compiled.")>>,
         final_report |-> report,
         task_complete |-> TRUE,
         next_agent |-> "ceo_agent"]

-----------------------------------------------------------------------------
(* Routing *)

\* router falling back to another node than the entry point
router_wrong_default(s) ==
    IF Get(s, "task_complete", FALSE) THEN END
    ELSE Get(s, "next_agent", "research_team_leader")

\* router without its task_complete test
router_hint_only(s) == Get(s, "next_agent", "ceo_agent")

router(s) ==
    IF Get(s, "task_complete", FALSE) THEN END
    ELSE Get(s, "next_agent", "ceo_agent")

-----------------------------------------------------------------------------
(* The compiled graph: graph.invoke runs the entry node, applies its update, *)
(* asks the router where to go, and repeats until the router answers END.    *)
(* The longest run takes 10 steps, below langgraph's default recursion limit *)
(* (the source sets none), which is therefore not modelled.                  *)

\* the input both callers (app.py and __main__) give graph.invoke
FreshState(user_question) ==
    [messages |-> <<HumanMessage(user_question)>>, current_task |-> user_question]

\* an exception leaves graph.invoke: no update is applied, nothing is
\* returned, and app.py (which catches nothing) shows the exception
Raise(kind) ==
    /\ status' = "error"
    /\ error' = kind
    /\ ui' = IF ui = "spinner" THEN "exception" ELSE ui
    /\ UNCHANGED <<node, result>>

\* the conditional edge taken from a node whose update gave state s2
Advance(s2) ==
    LET r == router(s2)
    IN  IF r \in DOMAIN PathMap
        THEN IF PathMap[r] = END
             THEN /\ node' = END
                  /\ status' = "done"
                  /\ result' = s2
                  /\ UNCHANGED <<error, ui>>
             ELSE /\ node' = PathMap[r]
                  /\ UNCHANGED <<status, error, result, ui>>
        ELSE Raise("KeyError")   \* r is no key of the edge map

\* node n runs and returns update u
Commit(n, u) ==
    /\ state' = Merge(state, u)
    /\ trace' = Append(trace, n)
    /\ Advance(Merge(state, u))

\* node n runs and its llm.invoke raises
Abort(n) ==
    /\ trace' = Append(trace, n)
    /\ state' = state
    /\ Raise("BackendError")

Ready(n) == status = "running" /\ node = n

LLMCall(n, prompt, o) == [caller |-> n, prompt |-> prompt, outcome |-> o]

StepCeoAgent ==
    /\ Ready("ceo_agent")
    /\ Commit("ceo_agent", ceo_agent(state))
    /\ UNCHANGED llm_calls

StepResearchTeamLeader ==
    /\ Ready("research_team_leader")
    /\ Commit("research_team_leader", research_team_leader(state))
    /\ UNCHANGED llm_calls

StepDataResearcher ==
    /\ Ready("data_researcher")
    /\ \E o \in Outcomes :
        /\ llm_calls' = Append(llm_calls,
                               LLMCall("data_researcher", data_researcher_prompt(state), o))
        /\ IF o.raised THEN Abort("data_researcher")
           ELSE Commit("data_researcher", data_researcher(state, o.content))

StepMarketResearcher ==
    /\ Ready("market_researcher")
    /\ \E o \in Outcomes :
        /\ llm_calls' = Append(llm_calls,
                               LLMCall("market_researcher", market_researcher_prompt(state), o))
        /\ IF o.raised THEN Abort("market_researcher")
           ELSE Commit("market_researcher", market_researcher(state, o.content))

StepMergeResearch ==
    /\ Ready("merge_research")
    /\ Commit("merge_research", merge_research(state))
    /\ UNCHANGED llm_calls

StepWritingTeamLeader ==
    /\ Ready("writing_team_leader")
    /\ Commit("writing_team_leader", writing_team_leader(state))
    /\ UNCHANGED llm_calls

StepTechnicalWriter ==
    /\ Ready("technical_writer")
    /\ \E o \in Outcomes :
        /\ llm_calls' = Append(llm_calls,
                               LLMCall("technical_writer", technical_writer_prompt(state), o))
        /\ IF o.raised THEN Abort("technical_writer")
           ELSE Commit("technical_writer", technical_writer(state, o.content))

StepSummaryWriter ==
    /\ Ready("summary_writer")
    /\ \E o \in Outcomes :
        /\ llm_calls' = Append(llm_calls,
                               LLMCall("summary_writer", summary_writer_prompt(state), o))
        /\ IF o.raised THEN Abort("summary_writer")
           ELSE Commit("summary_writer", summary_writer(state, o.content))

StepCompileReport ==
    /\ Ready("compile_report")
    /\ \E now \in Timestamps :
        Commit("compile_report", compile_report(state, now))
    /\ UNCHANGED llm_calls

-----------------------------------------------------------------------------
(* app.py: the Generate Report button *)

\* the button is pressed with user_question in the text area
GenerateReport ==
    /\ status = "idle"
    /\ \E user_question \in Inputs :
        IF Strip(user_question) = ""
        THEN /\ ui' = "warning"
             /\ UNCHANGED <<state, node, status>>
        ELSE /\ ui' = "spinner"
             /\ state' = FreshState(user_question)
             /\ node' = EntryPoint
             /\ status' = "running"
    /\ UNCHANGED <<error, result, trace, llm_calls>>

\* graph.invoke has returned: show the report or the failure message
Render ==
    /\ status = "done"
    /\ ui = "spinner"
    /\ LET final_report == Get(result, "final_report", "")
       IN  ui' = IF Truthy(final_report) THEN "report" ELSE "failure"
    /\ UNCHANGED <<state, node, status, error, result, trace, llm_calls>>

-----------------------------------------------------------------------------
(* A caller of graph.invoke that passes a state of its own making *)

Absent == "<absent>"

DataKeys == {"research_data", "market_data", "merged_research",
             "technical_text", "summary_text", "final_report"}

\* a caller-made input: the fresh state plus any of the other keys
CallerStates ==
    { LET data == [k \in {k \in DataKeys : f[k] # Absent} |-> f[k]]
          hint == IF na = Absent THEN [k \in {} |-> ""] ELSE [next_agent |-> na]
          done == IF tc = Absent THEN [k \in {} |-> ""]
                  ELSE [task_complete |-> (tc = "true")]
      IN  FreshState("AI") @@ data @@ hint @@ done :
        f \in [DataKeys -> {Absent, "P"}],
        na \in {Absent, "compile_report", "end"},
        tc \in {Absent, "true", "false"} }

InvokeAny ==
    /\ status = "idle"
    /\ \E s \in CallerStates : state' = s
    /\ node' = EntryPoint
    /\ status' = "running"
    /\ UNCHANGED <<error, result, ui, trace, llm_calls>>

-----------------------------------------------------------------------------
(* Specifications *)

Init ==
    /\ state = NoState
    /\ node = EntryPoint
    /\ status = "idle"
    /\ error = "none"
    /\ result = NoResult
    /\ ui = "form"
    /\ trace = <<>>
    /\ llm_calls = <<>>

Steps ==
    \/ StepCeoAgent
    \/ StepResearchTeamLeader
    \/ StepDataResearcher
    \/ StepMarketResearcher
    \/ StepMergeResearch
    \/ StepWritingTeamLeader
    \/ StepTechnicalWriter
    \/ StepSummaryWriter
    \/ StepCompileReport

\* the program as shipped: the page of app.py drives the graph
Next == GenerateReport \/ Steps \/ Render

Spec == Init /\ [][Next]_vars

\* graph.invoke is a synchronous loop: a scheduled node is run
FairSpec == Spec /\ WF_vars(Steps)

\* the graph under a caller that passes any input state
NextAny == InvokeAny \/ Steps

SpecAny == Init /\ [][NextAny]_vars

-----------------------------------------------------------------------------
(* Vocabulary of the properties *)

TaskComplete == Get(state, "task_complete", FALSE)

Messages == Get(state, "messages", <<>>)

Field(k) == Get(state, k, "")

Last(q) == q[Len(q)]

IsPrefix(a, b) == Len(a) <= Len(b) /\ SubSeq(b, 1, Len(a)) = a

Invoked(n) == \E i \in 1..Len(trace) : trace[i] = n

\* some llm.invoke call of the run raised
BackendRaised == \E i \in 1..Len(llm_calls) : llm_calls[i].outcome.raised

\* every llm.invoke call so far returned a non-empty text
BackendNonEmpty ==
    \A i \in 1..Len(llm_calls) :
        ~llm_calls[i].outcome.raised /\ llm_calls[i].outcome.content # ""

\* some llm.invoke call returned the empty text
BackendReturnedEmpty ==
    \E i \in 1..Len(llm_calls) :
        ~llm_calls[i].outcome.raised /\ llm_calls[i].outcome.content = ""

\* the ten invocations of a run in which no call raises
HappyPath ==
    <<"ceo_agent", "research_team_leader", "data_researcher", "market_researcher",
      "merge_research", "ceo_agent", "writing_team_leader", "technical_writer",
      "summary_writer", "compile_report">>

-----------------------------------------------------------------------------
(* C1: the order of the invocations *)

\* C1 as stated: with a backend that returns non-empty text on every call, a
\* run from the fresh state invokes eleven nodes, the ten of HappyPath and then
\* ceo_agent once more, and ends right after that last ceo_agent.
C1_ElevenInvocations ==
    (status = "done" /\ BackendNonEmpty) =>
        trace = HappyPath \o <<"ceo_agent">>

\* C1, amended: with a backend that returns non-empty text on every call, the
\* invocations made so far are always a prefix of the ten of HappyPath, which
\* ends with compile_report, and the run has ended exactly when all ten have
\* been made: the router ends the run right after compile_report, and ceo_agent
\* is not invoked a third time.
C1_TenInvocations ==
    BackendNonEmpty =>
        /\ IsPrefix(trace, HappyPath)
        /\ (status = "done") <=> (trace = HappyPath)
        /\ status # "error"

C1_Witness ==
    /\ status = "done"
    /\ BackendNonEmpty
    /\ Len(llm_calls) = 4
    /\ Len(trace) = 10
    /\ Last(trace) = "compile_report"

-----------------------------------------------------------------------------
(* C2: termination *)

\* C2: a run started from the fresh state with a backend that answers every
\* call (with any text, the empty one included) eventually ends, after ten
\* invocations, and the state it returns has task_complete true and a
\* non-empty final_report.
C2_Terminates ==
    /\ (status = "running") ~> (status = "done" \/ BackendRaised)
    /\ [](status = "done" =>
            /\ Len(trace) = 10
            /\ Get(result, "task_complete", FALSE) = TRUE
            /\ Get(result, "final_report", "") # "")
    /\ [](status = "error" => BackendRaised)

C2_Witness ==
    /\ status = "done"
    /\ BackendReturnedEmpty
    /\ ~BackendRaised
    /\ Get(result, "task_complete", FALSE) = TRUE
    /\ Get(result, "final_report", "") # ""

-----------------------------------------------------------------------------
(* C3: the router on a completed state *)

\* C3: in every state the graph holds, whatever next_agent and the other keys
\* are, task_complete true makes the router answer END, and the run has ended
\* as soon as a node has run with task_complete true.
C3_CompleteRoutesToEnd ==
    TaskComplete =>
        /\ router(state) = END
        /\ (trace # <<>> => status = "done")

\* task_complete is true while next_agent names something else than END
C3_Witness ==
    /\ TaskComplete
    /\ status = "done"
    /\ Get(state, "next_agent", "") = "end"
    /\ Get(state, "merged_research", "") # ""

-----------------------------------------------------------------------------
(* C4: task_complete *)

\* C4: in a run from the fresh state, task_complete is false until
\* compile_report's update is applied, only the step of compile_report turns
\* it true, and no step turns it back to false.
C4_SetOnlyByCompile ==
    /\ [](TaskComplete => (trace # <<>> /\ Last(trace) = "compile_report"))
    /\ [][(~TaskComplete /\ TaskComplete') => (status = "running" /\ node = "compile_report")]_vars
    /\ [][TaskComplete => TaskComplete']_vars

C4_Witness ==
    /\ TaskComplete
    /\ Invoked("compile_report")
    /\ ui \in {"report", "failure"}

-----------------------------------------------------------------------------
(* C5: the decision table of ceo_agent *)

\* the table of C5, its third row being the terminal signal
SupervisorTable(s) ==
    IF Get(s, "merged_research", "") = "" THEN "research_team_leader"
    ELSE IF Get(s, "technical_text", "") = "" \/ Get(s, "summary_text", "") = ""
         THEN "writing_team_leader"
    ELSE END

\* C5 as stated: the hint ceo_agent writes is the first matching row of the
\* table, and when merged_research, technical_text and summary_text are all
\* non-empty it is the terminal signal, which ends the run.  (ceo_agent writes
\* no data key, so the table reads the same before and after its step.)
C5_SupervisorTable ==
    (trace # <<>> /\ Last(trace) = "ceo_agent") =>
        /\ Get(state, "next_agent", "") = SupervisorTable(state)
        /\ (SupervisorTable(state) = END => status = "done")

\* the first two rows, which the code does follow
C5_FirstTwoRows ==
    (trace # <<>> /\ Last(trace) = "ceo_agent" /\ SupervisorTable(state) # END) =>
        Get(state, "next_agent", "") = SupervisorTable(state)

-----------------------------------------------------------------------------
(* C6: the names written to next_agent *)

\* C6 as stated: after every node's step, whatever state the caller passed,
\* next_agent names one of the nine nodes or END, the names the edge map has.
C6_HintIsRegistered ==
    trace # <<>> => Get(state, "next_agent", "") \in DOMAIN PathMap

-----------------------------------------------------------------------------
(* C8: a failing llm.invoke *)

\* C8 as stated: when llm.invoke raises inside one of the four nodes that call
\* it, no further node runs, the failing node's update is not applied, and the
\* caller receives the state accumulated so far, with final_report empty and
\* task_complete false.
C8_PartialStateReturned ==
    error = "BackendError" =>
        /\ status = "error"
        /\ result = state
        /\ Get(result, "final_report", "") = ""
        /\ Get(result, "task_complete", FALSE) = FALSE

\* what the code does do there: the run stops at the failing node, whose
\* update is not applied, and nothing is returned
C8_AbortsWithoutResult ==
    error = "BackendError" =>
        /\ status = "error"
        /\ result = NoResult
        /\ Len(Messages) = Len(trace)
        /\ Get(state, "final_report", "") = ""
        /\ ~TaskComplete

-----------------------------------------------------------------------------
(* C9: the length of the messages log *)

\* C9 as stated: at the end of a run from the fresh state in which no call
\* raises, messages has as many entries as nodes were invoked, and no entry is
\* empty.
C9_LengthIsInvocations ==
    status = "done" =>
        /\ Len(Messages) = Len(trace)
        /\ \A i \in 1..Len(Messages) : Messages[i].content # ""

\* C9, amended: at the end of such a run messages has one entry more than
\* nodes were invoked, the seed message and one entry per invocation: 11
\* entries for 10 invocations, none of them empty.
C9_LengthIsInvocationsPlusSeed ==
    status = "done" =>
        /\ Len(Messages) = Len(trace) + 1
        /\ Len(Messages) = 11
        /\ Len(trace) = 10
        /\ Messages[1] = HumanMessage(Field("current_task"))
        /\ \A i \in 1..Len(Messages) : Messages[i].content # ""

C9_Witness ==
    /\ status = "done"
    /\ Len(Get(result, "messages", <<>>)) = 11
    /\ Len(trace) = 10

-----------------------------------------------------------------------------
(* C10: merged_research and its two inputs *)

\* C10 as stated: merged_research is non-empty only if research_data and
\* market_data are both non-empty, whatever the backend returns.
C10_MergedNeedsBothNonEmpty ==
    Field("merged_research") # "" =>
        (Field("research_data") # "" /\ Field("market_data") # "")

\* C10, amended: merged_research is non-empty only once merge_research has
\* run, after both researchers have run and written research_data and
\* market_data (either of which may be the empty text), and from then on it
\* is the two texts under their headers, so never empty.
C10_MergedNeedsBothWritten ==
    /\ Field("merged_research") # "" =>
        /\ Invoked("merge_research")
        /\ "research_data" \in DOMAIN state
        /\ "market_data" \in DOMAIN state
        /\ IsPrefix(<<"ceo_agent", "research_team_leader", "data_researcher",
                      "market_researcher", "merge_research">>, trace)
        /\ Field("merged_research") =
              "**DATA RESEARCH:**\n" \o Field("research_data")
              \o "\n\n**MARKET RESEARCH:**\n" \o Field("market_data")
    /\ Invoked("merge_research") => Field("merged_research") # ""

\* merge_research has run on an empty research_data
C10_Witness ==
    /\ Invoked("merge_research")
    /\ Field("merged_research") # ""
    /\ Field("research_data") = ""
    /\ Field("market_data") # ""

-----------------------------------------------------------------------------
(* C11: final_report and its two inputs *)

\* C11 as stated: final_report is non-empty only if technical_text and
\* summary_text are both non-empty, whatever the backend returns.
C11_ReportNeedsBothNonEmpty ==
    Field("final_report") # "" =>
        (Field("technical_text") # "" /\ Field("summary_text") # "")

\* C11, amended: final_report is non-empty only once compile_report has run,
\* after both writers have run and written technical_text and summary_text
\* (either of which may be the empty text), and from then on it is the filled
\* template, so never empty.
C11_ReportNeedsBothWritten ==
    /\ Field("final_report") # "" =>
        /\ Last(trace) = "compile_report"
        /\ "technical_text" \in DOMAIN state
        /\ "summary_text" \in DOMAIN state
        /\ Invoked("technical_writer") /\ Invoked("summary_writer")
    /\ Invoked("compile_report") => Field("final_report") # ""

\* compile_report has run on an empty technical_text
C11_Witness ==
    /\ Invoked("compile_report")
    /\ Field("final_report") # ""
    /\ Field("technical_text") = ""
    /\ Field("summary_text") # ""

-----------------------------------------------------------------------------
(* C12: degraded merge and compile *)

\* s with the keys ks all holding a non-empty text
WithInputs(s, ks) == [k \in ks |-> "P"] @@ s

\* the update's log entry
Logged(u) == u.messages

\* the state merge_research was given was missing an input
MergeDegraded ==
    /\ trace # <<>> /\ Last(trace) = "merge_research"
    /\ (Field("research_data") = "" \/ Field("market_data") = "")

\* the state compile_report was given was missing an input
CompileDegraded ==
    /\ trace # <<>> /\ Last(trace) = "compile_report"
    /\ (Field("technical_text") = "" \/ Field("summary_text") = "")

\* C12 as stated: when merge_research or compile_report runs on an empty
\* input the step does not fail, and what it returns tells the degradation:
\* its log entry, or the set of keys it writes, differs from what the same
\* step returns when its inputs are all non-empty.  (Neither step writes its
\* own inputs, so they read the same before and after the step.)
C12_DegradationRecorded ==
    /\ MergeDegraded =>
        /\ status # "error"
        /\ LET complete == WithInputs(state, {"research_data", "market_data"})
           IN  \/ Logged(merge_research(state)) # Logged(merge_research(complete))
               \/ DOMAIN merge_research(state) # DOMAIN merge_research(complete)
    /\ CompileDegraded =>
        /\ status # "error"
        /\ LET complete == WithInputs(state, {"technical_text", "summary_text"})
           IN  \A now \in Timestamps :
                 \/ Logged(compile_report(state, now)) # Logged(compile_report(complete, now))
                 \/ DOMAIN compile_report(state, now) # DOMAIN compile_report(complete, now)

\* the part of C12 the code does follow: a degraded step does not fail, and
\* the run still ends with a final_report
C12_DegradedStillCompletes ==
    /\ (MergeDegraded \/ CompileDegraded) => status # "error"
    /\ (status = "done") => Get(result, "final_report", "") # ""

-----------------------------------------------------------------------------
(* C13: the contents of final_report *)

\* C13: the final_report of a completed run is the template filled with
\* current_task, then the full text the Technical Writer's call returned, then
\* the full text the Summary Writer's call returned; nothing else of the run,
\* the researchers' texts included, is in it.
C13_ReportIsFilledTemplate ==
    status = "done" =>
        /\ Len(llm_calls) = 4
        /\ llm_calls[3].caller = "technical_writer"
        /\ llm_calls[4].caller = "summary_writer"
        /\ \E now \in Timestamps :
             Get(result, "final_report", "") =
                Report(now, Get(result, "current_task", ""),
                       llm_calls[3].outcome.content, llm_calls[4].outcome.content)

\* a completed run whose four responses are not all the same
C13_Witness ==
    /\ status = "done"
    /\ Len(llm_calls) = 4
    /\ llm_calls[3].outcome.content = "a"
    /\ llm_calls[4].outcome.content = "b"
    /\ llm_calls[1].outcome.content = "b"
    /\ Get(result, "final_report", "") # ""

-----------------------------------------------------------------------------
(* C14: what the page shows *)

\* C14 as stated: whatever the outcome of graph.invoke (a report, an empty
\* final_report, a run aborted by an error) the page shows the report when
\* final_report is present and otherwise the failure message, and the graph
\* is never invoked on an empty or whitespace-only task.
C14_ReportOrFailureShown ==
    /\ status = "error" => ui = "failure"
    /\ (status = "done" /\ ui # "spinner") =>
          ui = (IF Get(result, "final_report", "") # "" THEN "report" ELSE "failure")
    /\ status # "idle" => Strip(Field("current_task")) # ""

\* the part of C14 the code does follow: when graph.invoke returns, and on an
\* empty task
C14_WhenInvokeReturns ==
    /\ (status = "done" /\ ui # "spinner") =>
          ui = (IF Get(result, "final_report", "") # "" THEN "report" ELSE "failure")
    /\ status # "idle" => Strip(Field("current_task")) # ""
    /\ status = "error" => ui = "exception"

-----------------------------------------------------------------------------
(* C15: the router on an incomplete state *)

\* the hint of each node that always hands over to the same node
FixedHint ==
    [research_team_leader |-> "data_researcher",
     data_researcher      |-> "market_researcher",
     market_researcher    |-> "merge_research",
     merge_research       |-> "ceo_agent",
     writing_team_leader  |-> "technical_writer",
     technical_writer     |-> "summary_writer",
     summary_writer       |-> "compile_report"]

\* C15: while task_complete is false the router answers the next_agent the
\* state holds, which after a node's step is the one that node wrote, and
\* answers the entry node when next_agent is not set; the graph then runs
\* the node the router named.
C15_RouterFollowsHint ==
    ~TaskComplete =>
        /\ router(state) = (IF "next_agent" \in DOMAIN state
                            THEN state["next_agent"] ELSE EntryPoint)
        /\ (status = "running" /\ trace # <<>>) =>
              /\ node = router(state)
              /\ Last(trace) \in DOMAIN FixedHint => node = FixedHint[Last(trace)]

\* the router has followed a node's hint
C15_Witness ==
    /\ status = "running"
    /\ ~TaskComplete
    /\ trace # <<>> /\ Last(trace) = "data_researcher"
    /\ node = "market_researcher"

\* a state in which next_agent was never set
C15_HintUnset ==
    status = "running" /\ ~TaskComplete /\ "next_agent" \notin DOMAIN state

-----------------------------------------------------------------------------
(* C16: what a step leaves alone *)

\* the data keys each node writes
Own(n) ==
    CASE n = "data_researcher"   -> {"research_data"}
      [] n = "market_researcher" -> {"market_data"}
      [] n = "merge_research"    -> {"merged_research"}
      [] n = "technical_writer"  -> {"technical_text"}
      [] n = "summary_writer"    -> {"summary_text"}
      [] n = "compile_report"    -> {"final_report", "task_complete"}
      [] OTHER                   -> {}

Written(n) == {"messages", "next_agent"} \cup Own(n)

\* C16: a node's step changes no key but messages, next_agent and the node's
\* own output key(s), sets no other key, and removes none; current_task is
\* nobody's output, so no step changes it.
C16_Frame ==
    [][status = "running" =>
          /\ \A k \in DOMAIN state \ Written(node) :
                k \in DOMAIN state' /\ state'[k] = state[k]
          /\ DOMAIN state' \subseteq DOMAIN state \cup Written(node)]_vars

\* keys the caller had set are still what they were after merge_research
C16_Witness ==
    /\ Invoked("merge_research")
    /\ Field("final_report") = "P"
    /\ Field("technical_text") = "P"
    /\ Field("current_task") = "AI"
    /\ Field("merged_research") # "P"

-----------------------------------------------------------------------------
(* C17: the messages log *)

\* C17: every step of a node that returns appends exactly one non-empty entry
\* to messages and keeps the entries before it (a node whose llm.invoke raises
\* returns no update and leaves the log as it was), and the seed message
\* stays the first entry.
C17_AppendOnly ==
    /\ [][trace' # trace =>
            IF status' = "error"
            THEN Messages' = Messages
            ELSE /\ Len(Messages') = Len(Messages) + 1
                 /\ IsPrefix(Messages, Messages')
                 /\ Messages'[Len(Messages')].content # ""]_vars
    /\ [](status # "idle" =>
            /\ Len(Messages) >= 1
            /\ Messages[1] = HumanMessage(Field("current_task")))

C17_Witness ==
    /\ status = "running"
    /\ Len(trace) = 4
    /\ Len(Messages) = 5
    /\ Messages[1].role = "human"
    /\ Messages[5].role = "ai"

-----------------------------------------------------------------------------
(* C18: how a run ends *)

\* C18: a run ends normally only with task_complete true.  When ceo_agent
\* itself finds all the work done (its third branch) the run does not end
\* normally either: its hint is no key of the edge map and the run dies of a
\* KeyError.
C18_EndsOnlyWhenComplete ==
    /\ status = "done" => (TaskComplete /\ error = "none" /\ result = state)
    /\ (trace # <<>> /\ Last(trace) = "ceo_agent"
          /\ Get(state, "next_agent", "") = "end" /\ ~TaskComplete) =>
            status = "error"

\* ceo_agent has found all the work done while task_complete is false
C18_Witness ==
    /\ trace # <<>> /\ Last(trace) = "ceo_agent"
    /\ Get(state, "next_agent", "") = "end"
    /\ ~TaskComplete
    /\ status # "done"

\* a run that has ended normally
C18_EndedNormally ==
    status = "done" /\ TaskComplete /\ Invoked("compile_report")

-----------------------------------------------------------------------------
(* C19: the backend calls of a completed run *)

Callers == [i \in 1..Len(llm_calls) |-> llm_calls[i].caller]

Count(n) == Cardinality({i \in 1..Len(trace) : trace[i] = n})

TextKeys == {"research_data", "market_data", "technical_text", "summary_text"}

\* C19: a run from the fresh state that completes has invoked each of the
\* four nodes that call the backend exactly once, in the order of HappyPath
\* (merge_research after both researchers, compile_report after both
\* writers), each making one call: four calls, in the order data, market,
\* technical, summary.  No node is invoked twice but ceo_agent, and each of
\* the four texts, once written, is never written again.
C19_FourCallsInOrder ==
    /\ [](status = "done" =>
            /\ Callers = <<"data_researcher", "market_researcher",
                           "technical_writer", "summary_writer">>
            /\ trace = HappyPath
            /\ \A n \in {"data_researcher", "market_researcher",
                         "technical_writer", "summary_writer"} : Count(n) = 1)
    /\ [](Len(llm_calls) = Cardinality({i \in 1..Len(trace) : trace[i] \in
            {"data_researcher", "market_researcher", "technical_writer", "summary_writer"}}))
    /\ [][\A k \in TextKeys \cap DOMAIN state :
            k \in DOMAIN state' /\ state'[k] = state[k]]_vars

C19_Witness ==
    /\ status = "done"
    /\ Len(llm_calls) = 4
    /\ TextKeys \subseteq DOMAIN state
    /\ Count("ceo_agent") = 2

-----------------------------------------------------------------------------
(* C20: ceo_agent's third branch *)

\* C20: in a run from the fresh state, whatever the backend does, ceo_agent
\* never takes its third branch: "end" is never written to next_agent, and
\* ceo_agent never runs on a state in which technical_text and summary_text
\* are both non-empty, since the run ends right after compile_report.
C20_EndNeverWritten ==
    /\ Get(state, "next_agent", "") # "end"
    /\ error # "KeyError"
    /\ node # "end"
    /\ (status = "running" /\ node = "ceo_agent" /\ trace # <<>>) =>
          (Field("technical_text") = "" /\ Field("summary_text") = ""
             /\ Field("merged_research") # "")
    /\ Count("ceo_agent") <= 2

\* both texts are non-empty, and ceo_agent has run twice and not again
C20_Witness ==
    /\ status = "done"
    /\ Field("technical_text") # "" /\ Field("summary_text") # ""
    /\ Count("ceo_agent") = 2
    /\ Get(state, "next_agent", "") = "ceo_agent"

=============================================================================
